---- MODULE Spec2Model ----
(***************************************************************************)
(* Model of the two example scripts of the repository:                     *)
(*   src/test/sample-security.py   read_file, read_file_safely             *)
(*   src/examples/data_analyzer.py DataAnalyzer (load_data, load_all_data, *)
(*                                 cache_result, find_duplicates)          *)
(* Python str values are modelled as sequences of one-character strings,   *)
(* so that startswith, endswith and path splitting are computed on the     *)
(* characters, as the code computes them.                                  *)
(***************************************************************************)
EXTENDS Integers, Sequences, FiniteSets, TLC

VARIABLES
    \* read_file / read_file_safely (sample-security.py)
    filename,     \* the filename argument
    call,         \* "none" before the call, then the function that ran
    outcome,      \* how the call ended
    opened,       \* locations of the files open() succeeded on
    \* DataAnalyzer (data_analyzer.py)
    data_path,    \* self.data_path
    cache,        \* self.cache: a dict, modelled as a function on its keys
    log,          \* history: the cache_result calls made so far, in order
    listing,      \* what os.listdir(self.data_path) returns
    files,        \* what each listed file holds
    op,           \* the last DataAnalyzer method called
    arg,          \* its filename argument
    result,       \* how it ended
    \* DataAnalyzer.find_duplicates, statement by statement
    data_list,    \* the argument
    orig_list,    \* history: the argument as passed
    pc,           \* "outer", "inner" or "done"
    i, j,         \* the loop variables
    ni, nj,       \* the next value of each range iterator
    duplicates    \* the list being built

pathVars == <<filename, call, outcome, opened>>
cacheVars == <<cache, log>>
loadVars == <<data_path, listing, files, op, arg, result>>
dupVars == <<data_list, orig_list, pc, i, j, ni, nj, duplicates>>
vars == <<pathVars, cacheVars, loadVars, dupVars>>

-----------------------------------------------------------------------------
(* The state of each part before anything is called on it *)

\* the empty dict {}
EmptyDict == [k \in {} |-> 0]

\* DataAnalyzer.__init__, as called by analyzer = DataAnalyzer("/tmp/data")
AnalyzerIdle ==
    /\ data_path = "/tmp/data"
    /\ cache = EmptyDict
    /\ log = <<>>
    /\ listing = <<>>
    /\ files = EmptyDict
    /\ op = "none"
    /\ arg = <<>>
    /\ result = [raised |-> FALSE, reader |-> "none", value |-> <<>>]

DupIdle ==
    /\ data_list = <<>>
    /\ orig_list = <<>>
    /\ pc = "done"
    /\ i = 0
    /\ j = 0
    /\ ni = 0
    /\ nj = 0
    /\ duplicates = <<>>

-----------------------------------------------------------------------------
(* Python str helpers *)

StartsWith(s, pre) ==
    /\ Len(s) >= Len(pre)
    /\ SubSeq(s, 1, Len(pre)) = pre

EndsWith(s, suf) ==
    /\ Len(s) >= Len(suf)
    /\ SubSeq(s, Len(s) - Len(suf) + 1, Len(s)) = suf

\* s.split("/"): the segments between slashes, empty ones included
RECURSIVE Split(_)
Split(s) ==
    IF s = <<>> THEN << <<>> >>
    ELSE LET r == Split(Tail(s))
         IN  IF Head(s) = "/" THEN << <<>> >> \o r
             ELSE << <<Head(s)>> \o Head(r) >> \o Tail(r)

\* "/".join(parts)
RECURSIVE JoinSlash(_)
JoinSlash(parts) ==
    IF parts = <<>> THEN <<>>
    ELSE IF Len(parts) = 1 THEN Head(parts)
    ELSE Head(parts) \o <<"/">> \o JoinSlash(Tail(parts))

-----------------------------------------------------------------------------
(* pathlib.PurePosixPath, as used by read_file_safely *)

UPLOADS == <<"u", "p", "l", "o", "a", "d", "s">>
ETC == <<"e", "t", "c">>
DOTDOT == <<".", ".">>
DOT == <<".">>

\* the root of a POSIX path: exactly two leading slashes are kept, any other
\* number of leading slashes collapses to one
PathRoot(s) ==
    IF ~StartsWith(s, <<"/">>) THEN <<>>
    ELSE IF StartsWith(s, <<"/", "/">>) /\ ~StartsWith(s, <<"/", "/", "/">>)
         THEN <<"/", "/">>
    ELSE <<"/">>

\* the parts after the root: empty and "." segments are dropped, ".." is kept
PathParts(s) == SelectSeq(Split(s), LAMBDA x : x # <<>> /\ x # DOT)

PurePath(s) == [root |-> PathRoot(s), parts |-> PathParts(s)]

\* p / s: an absolute right operand replaces the left one
PathJoin(p, s) ==
    LET q == PurePath(s)
    IN  IF q.root # <<>> THEN q
        ELSE [root |-> p.root, parts |-> p.parts \o q.parts]

\* str(p)
PathStr(p) ==
    IF p.root = <<>> /\ p.parts = <<>> THEN DOT
    ELSE p.root \o JoinSlash(p.parts)

-----------------------------------------------------------------------------
(* The file system open() resolves a path string against: locations are    *)
(* sequences of names from the root.                                       *)

Dirs == { <<>>, <<UPLOADS>>, <<ETC>> }
Files == { <<UPLOADS, <<"a">> >>, <<ETC, <<"a">> >>, << <<"a">> >> }

Parent(loc) == IF loc = <<>> THEN <<>> ELSE SubSeq(loc, 1, Len(loc) - 1)

\* the kernel's walk: every component is looked up in the directory reached
\* so far; ".." is the parent of that directory
RECURSIVE Resolve(_, _, _)
Resolve(cur, comps, mustBeDir) ==
    IF cur \notin Dirs /\ (comps # <<>> \/ mustBeDir)
    THEN [err |-> IF cur \in Files THEN "NotADirectoryError"
                  ELSE "FileNotFoundError", loc |-> cur]
    ELSE IF comps = <<>>
    THEN [err |-> IF cur \in Files THEN "ok"
                  ELSE IF cur \in Dirs THEN "IsADirectoryError"
                  ELSE "FileNotFoundError", loc |-> cur]
    ELSE LET c == Head(comps)
             nxt == IF c = DOTDOT THEN Parent(cur)
                    ELSE IF c = DOT THEN cur
                    ELSE Append(cur, c)
         IN  Resolve(nxt, Tail(comps), mustBeDir)

\* open(path, 'r') of a path string
Open(path) ==
    IF path = <<>> THEN [err |-> "FileNotFoundError", loc |-> <<>>]
    ELSE IF ~StartsWith(path, <<"/">>)
    THEN [err |-> "FileNotFoundError", loc |-> <<>>]
    ELSE Resolve(<<>>, SelectSeq(Split(path), LAMBDA x : x # <<>>),
                 EndsWith(path, <<"/">>))

-----------------------------------------------------------------------------
(* sample-security.py *)

\* read_file(filename): no validation, every error propagates
read_file_result(fn) ==
    LET r == Open(<<"/">> \o UPLOADS \o <<"/">> \o fn)
    IN  IF r.err = "ok" THEN [outcome |-> "content", opened |-> {r.loc}]
        ELSE [outcome |-> r.err, opened |-> {}]

\* read_file_safely(filename)
read_file_safely_result(fn) ==
    LET safe_path == PathJoin(PurePath(<<"/">> \o UPLOADS), fn)
    IN  IF ~StartsWith(PathStr(safe_path), <<"/">> \o UPLOADS \o <<"/">>)
        THEN [outcome |-> "ValueError", opened |-> {}]
        ELSE LET r == Open(PathStr(safe_path))
             IN  IF r.err = "ok"
                 THEN [outcome |-> "content", opened |-> {r.loc}]
                 ELSE IF r.err = "FileNotFoundError"
                 THEN [outcome |-> "None", opened |-> {}]
                 ELSE [outcome |-> r.err, opened |-> {}]

\* the filenames tried: concatenations of at most MaxParts tokens
MaxParts == 5
Tokens == { <<"/">>, DOT, DOTDOT, <<"a">>, ETC, UPLOADS }

RECURSIVE Concats(_)
Concats(n) ==
    IF n = 0 THEN { <<>> }
    ELSE LET prev == Concats(n - 1)
         IN  prev \cup { p \o t : p \in prev, t \in Tokens }

FileNames == Concats(MaxParts)

PathIdle ==
    /\ filename = <<>>
    /\ call = "none"
    /\ outcome = "none"
    /\ opened = {}

InitPath ==
    /\ filename \in FileNames
    /\ call = "none"
    /\ outcome = "none"
    /\ opened = {}
    /\ AnalyzerIdle
    /\ DupIdle

read_file ==
    /\ call = "none"
    /\ call' = "read_file"
    /\ outcome' = read_file_result(filename).outcome
    /\ opened' = read_file_result(filename).opened
    /\ UNCHANGED <<filename, cacheVars, loadVars, dupVars>>

read_file_safely ==
    /\ call = "none"
    /\ call' = "read_file_safely"
    /\ outcome' = read_file_safely_result(filename).outcome
    /\ opened' = read_file_safely_result(filename).opened
    /\ UNCHANGED <<filename, cacheVars, loadVars, dupVars>>

NextPath == read_file \/ read_file_safely

SpecPath == InitPath /\ [][NextPath]_vars

\* a location lies inside the /uploads directory
InsideUploads(loc) == Len(loc) >= 2 /\ loc[1] = UPLOADS

\* C1: read_file_safely either raises ValueError or opens only a file whose
\* resolved location lies inside /uploads; no filename makes it open a file
\* outside /uploads.
C1_SafeRead ==
    call = "read_file_safely" =>
        \A loc \in opened : InsideUploads(loc)

-----------------------------------------------------------------------------
(* DataAnalyzer.cache_result *)

NumKeys == 3
MaxCalls == 4
Keys == 1..NumKeys
Data == {"d1", "d2"}

\* a cache that drops its other entries once it holds two
DictSetEvicting(d, key, data) ==
    IF Cardinality(DOMAIN d) >= 2 THEN [k \in {key} |-> data]
    ELSE [k \in DOMAIN d \cup {key} |-> IF k = key THEN data ELSE d[k]]

\* self.cache[key] = data
DictSet(d, key, data) ==
    [k \in DOMAIN d \cup {key} |-> IF k = key THEN data ELSE d[k]]

cache_result(key, data) ==
    /\ Len(log) < MaxCalls
    /\ cache' = DictSet(cache, key, data)
    /\ log' = Append(log, [key |-> key, data |-> data])
    /\ UNCHANGED <<pathVars, loadVars, dupVars>>

InitCache ==
    /\ AnalyzerIdle
    /\ PathIdle
    /\ DupIdle

NextCache == \E key \in Keys, data \in Data : cache_result(key, data)

SpecCache == InitCache /\ [][NextCache]_vars

\* C3: the number of entries held in the cache never exceeds a fixed capacity
\* (here: any capacity below the number of distinct keys that are stored).
C3_CacheBounded == Cardinality(DOMAIN cache) < NumKeys

\* the keys stored so far, and the index of the most recent call for a key
StoredKeys == { log[n].key : n \in 1..Len(log) }
LastCall(k) == CHOOSE n \in 1..Len(log) :
    /\ log[n].key = k
    /\ \A m \in (n + 1)..Len(log) : log[m].key # k

\* C8: cache_result never evicts and touches only its own key: the cache maps
\* every key ever stored to the data of the most recent call for that key, the
\* number of entries is the number of distinct keys stored so far, and a call
\* leaves the entries of all other keys as they were and never lowers the
\* number of entries.
C8_CacheNeverEvicts ==
    /\ [](/\ DOMAIN cache = StoredKeys
          /\ \A k \in StoredKeys : cache[k] = log[LastCall(k)].data
          /\ Cardinality(DOMAIN cache) = Cardinality(StoredKeys))
    /\ [][Len(log') = Len(log) + 1 =>
            /\ \A k \in DOMAIN cache :
                 k # log'[Len(log')].key =>
                    k \in DOMAIN cache' /\ cache'[k] = cache[k]
            /\ Cardinality(DOMAIN cache') >= Cardinality(DOMAIN cache)]_vars

\* a key has been overwritten with other data while another key is held
C8_Witness ==
    /\ Cardinality(DOMAIN cache) >= 2
    /\ \E m, n \in 1..Len(log) :
         m < n /\ log[m].key = log[n].key /\ log[m].data # log[n].data
         /\ \E q \in 1..(m - 1) : log[q].key # log[m].key

-----------------------------------------------------------------------------
(* DataAnalyzer.load_data and DataAnalyzer.load_all_data *)

MaxFiles == 3

CSV == <<".", "c", "s", "v">>
PKL == <<".", "p", "k", "l">>

\* the names a directory entry or an argument may have
Names == { <<"a">> \o CSV, <<"b">> \o PKL, <<"c", ".", "t", "x", "t">>,
           <<"c", "s", "v">>, PKL \o <<".", "b", "a", "k">> }

\* what a listed entry holds: CSV text, a pickled DataFrame, bytes neither
\* reader can decode, or nothing open() can read (a directory, no permission)
Conds == {"csv", "pickle", "corrupt", "unreadable"}

\* a name that is not listed does not exist
FileCond(name) == IF name \in DOMAIN files THEN files[name] ELSE "missing"

EmptyDataFrame == [df |-> <<>>]
DataFrameOf(name) == [df |-> name]

\* with open(full_path, 'rb') as f: return pickle.load(f)
pickle_load(name) ==
    IF FileCond(name) = "pickle"
    THEN [raised |-> FALSE, reader |-> "pickle.load", value |-> DataFrameOf(name)]
    ELSE [raised |-> TRUE, reader |-> "pickle.load", value |-> EmptyDataFrame]

\* pd.read_csv(full_path)
read_csv(name) ==
    IF FileCond(name) = "csv"
    THEN [raised |-> FALSE, reader |-> "read_csv", value |-> DataFrameOf(name)]
    ELSE [raised |-> TRUE, reader |-> "read_csv", value |-> EmptyDataFrame]

\* the body of the try statement
load_data_try(name) ==
    IF EndsWith(name, PKL) THEN pickle_load(name) ELSE read_csv(name)

\* load_data without its except clause: the reader's exception propagates
load_data_unguarded(name) == load_data_try(name)

\* load_data(filename): except Exception returns an empty DataFrame
load_data(name) ==
    LET r == load_data_try(name)
    IN  IF r.raised
        THEN [raised |-> FALSE, reader |-> r.reader, value |-> EmptyDataFrame]
        ELSE r

\* filename.endswith(('.csv', '.pkl'))
IsDataFile(name) == EndsWith(name, CSV) \/ EndsWith(name, PKL)

\* the for loop of load_all_data over the entries still to visit; an
\* exception raised by load_data leaves the loop and the method
RECURSIVE load_all_loop(_, _)
load_all_loop(todo, all_data) ==
    IF todo = <<>>
    THEN [raised |-> FALSE, reader |-> "none", value |-> all_data]
    ELSE IF ~IsDataFile(Head(todo)) THEN load_all_loop(Tail(todo), all_data)
    ELSE LET data == load_data(Head(todo))
         IN  IF data.raised
             THEN [raised |-> TRUE, reader |-> "none", value |-> <<>>]
             ELSE load_all_loop(Tail(todo), Append(all_data, data.value))

\* a loop that gives up at the first file that did not load
RECURSIVE load_all_loop_stop(_, _)
load_all_loop_stop(todo, all_data) ==
    IF todo = <<>>
    THEN [raised |-> FALSE, reader |-> "none", value |-> all_data]
    ELSE IF ~IsDataFile(Head(todo)) THEN load_all_loop_stop(Tail(todo), all_data)
    ELSE LET data == load_data(Head(todo))
         IN  IF data.raised \/ data.value = EmptyDataFrame
             THEN [raised |-> FALSE, reader |-> "none", value |-> all_data]
             ELSE load_all_loop_stop(Tail(todo), Append(all_data, data.value))

load_all_data_abort(names) == load_all_loop_stop(names, <<>>)

\* load_all_data(), given what os.listdir returned
load_all_data(names) == load_all_loop(names, <<>>)

\* the directory listings: distinct names, in any order
Listings == { l \in UNION { [1..n -> Names] : n \in 0..MaxFiles } :
                \A m, n \in 1..Len(l) : m # n => l[m] # l[n] }

Range(f) == { f[x] : x \in DOMAIN f }

\* the analyzer as a program finds it: some directory content, and a cache
\* that is empty or holds the entry of one earlier cache_result call
InitLoad ==
    /\ data_path = "/tmp/data"
    /\ listing \in Listings
    /\ files \in [Range(listing) -> Conds]
    /\ \E c \in {0, 1} :
         /\ cache = IF c = 0 THEN EmptyDict ELSE DictSet(EmptyDict, 1, "d1")
         /\ log = IF c = 0 THEN <<>> ELSE <<[key |-> 1, data |-> "d1"]>>
    /\ op = "none"
    /\ arg = <<>>
    /\ result = [raised |-> FALSE, reader |-> "none", value |-> <<>>]
    /\ PathIdle
    /\ DupIdle

load_data_call(name) ==
    /\ op' = "load_data"
    /\ arg' = name
    /\ result' = load_data(name)
    /\ UNCHANGED <<data_path, listing, files, cacheVars, pathVars, dupVars>>

load_all_data_call ==
    /\ op' = "load_all_data"
    /\ arg' = <<>>
    /\ result' = load_all_data(listing)
    /\ UNCHANGED <<data_path, listing, files, cacheVars, pathVars, dupVars>>

NextLoad ==
    \/ \E name \in Names : load_data_call(name)
    \/ load_all_data_call

SpecLoad == InitLoad /\ [][NextLoad]_vars

\* the entry a file should contribute: its content when its suffix's reader
\* can decode it, an empty DataFrame when loading it fails
Loadable(name) ==
    \/ EndsWith(name, PKL) /\ FileCond(name) = "pickle"
    \/ ~EndsWith(name, PKL) /\ FileCond(name) = "csv"
EntryOf(name) == IF Loadable(name) THEN DataFrameOf(name) ELSE EmptyDataFrame
HasDataSuffix(n) ==
    /\ Len(n) >= 4
    /\ <<n[Len(n) - 3], n[Len(n) - 2], n[Len(n) - 1], n[Len(n)]>> \in {CSV, PKL}
DataFiles == SelectSeq(listing, HasDataSuffix)

\* C2: one bad file never aborts the run: load_all_data returns (it does not
\* raise) a list with exactly one entry per .csv/.pkl file in listing order,
\* the files after a failed one still loaded, other suffixes contributing no
\* entry.
C2_OneBadFileNeverAborts ==
    op = "load_all_data" =>
        /\ ~result.raised
        /\ Len(result.value) = Len(DataFiles)
        /\ \A n \in 1..Len(DataFiles) : result.value[n] = EntryOf(DataFiles[n])

\* a file that fails to load is followed by one that loads, beside a file of
\* another suffix
C2_Witness ==
    /\ op = "load_all_data"
    /\ Len(listing) = 3
    /\ \E m, n \in 1..Len(DataFiles) :
         /\ m < n
         /\ ~Loadable(DataFiles[m])
         /\ Loadable(DataFiles[n])
         /\ result.value[n] = DataFrameOf(DataFiles[n])
    /\ Len(DataFiles) = 2

\* C10: load_data never propagates a load failure: a name ending in '.pkl' is
\* read with pickle.load and any other name with read_csv, a failure of the
\* reader gives an empty DataFrame instead of an exception, and data_path and
\* the cache are left unchanged.
C10_LoadDataNeverRaises ==
    /\ [](op = "load_data" =>
            /\ ~result.raised
            /\ result.reader = IF EndsWith(arg, PKL) THEN "pickle.load"
                               ELSE "read_csv"
            /\ result.value = EntryOf(arg))
    /\ [][op' = "load_data" => cache' = cache /\ data_path' = data_path]_vars

\* a .pkl file that cannot be unpickled was asked for, with an entry cached
C10_Witness ==
    /\ op = "load_data"
    /\ EndsWith(arg, PKL)
    /\ FileCond(arg) \in {"corrupt", "csv", "unreadable"}
    /\ result.value = EmptyDataFrame
    /\ DOMAIN cache # {}

-----------------------------------------------------------------------------
(* DataAnalyzer.find_duplicates, one loop step at a time.  Lists are        *)
(* indexed from 1 here; i and j are the Python indices plus one.           *)

MaxLen == 4
NumVals == 3
Vals == 1..NumVals
Lists == UNION { [1..n -> Vals] : n \in 0..MaxLen }

\* duplicates = [] and the two range iterators not yet started
InitDup ==
    /\ data_list \in Lists
    /\ orig_list = data_list
    /\ pc = "outer"
    /\ i = 0
    /\ j = 0
    /\ ni = 1
    /\ nj = 1
    /\ duplicates = <<>>
    /\ AnalyzerIdle
    /\ PathIdle

\* an inner range that starts at i, not at i + 1
InnerStartAtOuter(outer) == outer

\* range(i + 1, len(data_list)): the first value of j
InnerStart(outer) == outer + 1

\* for i in range(len(data_list)): the next i, or the return
OuterStep ==
    /\ pc = "outer"
    /\ IF ni <= Len(data_list)
       THEN /\ i' = ni
            /\ ni' = ni + 1
            /\ nj' = InnerStart(ni)
            /\ pc' = "inner"
       ELSE /\ pc' = "done"
            /\ UNCHANGED <<i, ni, nj>>
    /\ UNCHANGED <<j, duplicates, data_list, orig_list>>
    /\ UNCHANGED <<pathVars, cacheVars, loadVars>>

\* for j in range(i + 1, len(data_list)): the next j and the loop body, or
\* the end of the inner loop
InnerStep ==
    /\ pc = "inner"
    /\ IF nj <= Len(data_list)
       THEN /\ j' = nj
            /\ nj' = nj + 1
            /\ duplicates' = IF data_list[i] = data_list[nj]
                             THEN Append(duplicates, data_list[i])
                             ELSE duplicates
            /\ pc' = "inner"
       ELSE /\ pc' = "outer"
            /\ UNCHANGED <<j, nj, duplicates>>
    /\ UNCHANGED <<i, ni, data_list, orig_list>>
    /\ UNCHANGED <<pathVars, cacheVars, loadVars>>

NextDup == OuterStep \/ InnerStep

\* the interpreter keeps running the call until it returns
SpecDup == InitDup /\ [][NextDup]_vars /\ WF_vars(NextDup)

\* the equal pairs of the argument, and the place of a pair in (i, j) order
EqualPairs ==
    { p \in (1..Len(orig_list)) \X (1..Len(orig_list)) :
        p[1] < p[2] /\ orig_list[p[1]] = orig_list[p[2]] }
Before(p, q) == p[1] < q[1] \/ (p[1] = q[1] /\ p[2] < q[2])
Rank(p) == Cardinality({ q \in EqualPairs : Before(q, p) }) + 1
Occurrences(seq, v) == Cardinality({ n \in 1..Len(seq) : seq[n] = v })

\* C9: find_duplicates returns one entry per equal pair: data_list[i] once for
\* each i < j with data_list[i] == data_list[j], in ascending (i, j) order, so
\* a value occurring k times appears k*(k-1)/2 times and a value occurring once
\* never; the input list is not modified and the call terminates.
C9_FindDuplicates ==
    /\ [](pc = "done" =>
            /\ Len(duplicates) = Cardinality(EqualPairs)
            /\ \A p \in EqualPairs : duplicates[Rank(p)] = orig_list[p[1]]
            /\ \A v \in Vals :
                 LET k == Occurrences(orig_list, v)
                 IN  2 * Occurrences(duplicates, v) = k * (k - 1))
    /\ [](data_list = orig_list)
    /\ <>(pc = "done")

\* the call returned on a list holding one value three times and another twice
C9_Witness ==
    /\ pc = "done"
    /\ Len(orig_list) > 0
    /\ \E v \in Vals : Occurrences(orig_list, v) = 3 /\ Occurrences(duplicates, v) = 3
    /\ \E v \in Vals : Occurrences(orig_list, v) = 1 /\ Occurrences(duplicates, v) = 0

====
